---- MODULE Spec2Model ----
(***************************************************************************)
(* Contract deployment ordering of flow-cli                                *)
(* (pkg/flowkit/resolvers/deployment.go) and the accounts remove-contract  *)
(* command (internal/accounts/contract-remove.go).                         *)
(*                                                                         *)
(* Locations are modelled as integers: contract number i of the input list *)
(* lives at location i (locations are unique), location 0 is a location no *)
(* contract is registered at.  An import declaration is an integer: a      *)
(* value >= 0 is a string location, -1 is an import whose location is not  *)
(* a string location (an address import).                                  *)
(***************************************************************************)
EXTENDS Integers, Sequences, FiniteSets, TLC

VARIABLES
    contracts,            \* Deployment.contracts: sequence of deployContract
    contractsByLocation,  \* Deployment.contractsByLocation: set of <<location, position>>
    pc,                   \* position inside Deployment.Sort: "idle" or "built"
    results,              \* outcomes of the Sort() calls completed so far
    createFlagsResults,   \* createFlags.Results (flag of the create command)
    flagsRemoveResults,   \* flagsRemove.Results
    flagsRemoveSigner,    \* flagsRemove.Signer
    args,                 \* args of the remove-contract command (exactly one)
    cmdResult             \* what RemoveCommand.Run returned, or NotRun

depVars == <<contracts, contractsByLocation, pc, results>>
cmdVars == <<createFlagsResults, flagsRemoveResults, flagsRemoveSigner, args, cmdResult>>
vars == <<contracts, contractsByLocation, pc, results,
          createFlagsResults, flagsRemoveResults, flagsRemoveSigner, args, cmdResult>>

(***************************************************************************)
(* Bounds                                                                  *)
(***************************************************************************)
MaxContracts == 3   \* contracts handed to NewDeployment
MaxImports == 3     \* import declarations in all sources together
MaxCalls == 2       \* Sort() calls on one Deployment

(***************************************************************************)
(* Generic helpers: sequences and Go maps (a map is a set of <<key, value>>*)
(* pairs with at most one pair per key; a nil map is a separate value).    *)
(***************************************************************************)
Min(a, b) == IF a < b THEN a ELSE b

Reverse(s) == [i \in 1..Len(s) |-> s[Len(s) + 1 - i]]

Range(s) == {s[i] : i \in DOMAIN s}

MapHas(m, k) == \E e \in m : e[1] = k

MapGet(m, k) == (CHOOSE e \in m : e[1] = k)[2]

MapPut(m, k, v) == {e \in m : e[1] # k} \cup {<<k, v>>}

NilMap == [nil |-> TRUE, entries |-> {}]

EmptyMap == [nil |-> FALSE, entries |-> {}]

(***************************************************************************)
(* Outcomes of a Sort() call                                               *)
(***************************************************************************)
NoError == [kind |-> "none", order |-> <<>>, cycles |-> <<>>, name |-> "", path |-> 0]

SortedOutcome(order) ==
    [kind |-> "ok", order |-> order, cycles |-> <<>>, name |-> "", path |-> 0]

UnresolvedImport(name, path) ==
    [kind |-> "unresolved", order |-> <<>>, cycles |-> <<>>, name |-> name, path |-> path]

CyclicImportError(cycles) ==
    [kind |-> "cyclic", order |-> <<>>, cycles |-> cycles, name |-> "", path |-> 0]

Panic(msg) ==
    [kind |-> "panic", order |-> <<>>, cycles |-> <<>>, name |-> msg, path |-> 0]

(***************************************************************************)
(* deployContract                                                          *)
(***************************************************************************)
\* A newContract that allocates the dependencies map (make(map[string]*deployContract)).
newContractInitialised(contract, index, code) ==
    [index |-> index, Contract |-> contract, program |-> code,
     dependencies |-> EmptyMap]

\* newContract: the struct literal sets index, Contract and program only, so
\* dependencies is the zero value of a map type, the nil map.
newContract(contract, index, code) ==
    [index |-> index, Contract |-> contract, program |-> code,
     dependencies |-> NilMap]

ID(c) == c.index

IsStringLocation(decl) == decl >= 0

\* imports: the locations of the import declarations that are string locations,
\* in source order.
imports(c) == SelectSeq(c.program, IsStringLocation)

\* addDependency: d.dependencies[location] = dep.  Assigning to an entry of a
\* nil map panics and stores nothing.
addDependency(c, location, dep) ==
    IF c.dependencies.nil
    THEN [panic |-> TRUE, contract |-> c]
    ELSE [panic |-> FALSE,
          contract |-> [c EXCEPT !.dependencies.entries = MapPut(@, location, dep)]]

(***************************************************************************)
(* Deployment: construction                                                *)
(***************************************************************************)
\* add: load the code, wrap it with the next index, register it by location.
add(d, contract, loader) ==
    LET c == newContract(contract, Len(d.contracts), loader[contract.Location])
    IN [contracts |-> Append(d.contracts, c),
        contractsByLocation |->
            MapPut(d.contractsByLocation, c.Contract.Location, Len(d.contracts) + 1)]

RECURSIVE addAll(_, _, _)
addAll(d, cs, loader) ==
    IF cs = <<>> THEN d
    ELSE addAll(add(d, Head(cs), loader), Tail(cs), loader)

NewDeployment(cs, loader) ==
    addAll([contracts |-> <<>>, contractsByLocation |-> {}], cs, loader)

(***************************************************************************)
(* Deployment.buildDependencies                                            *)
(***************************************************************************)
\* The scan from import number ii of contract number ci on; cs is the contract
\* list as modified so far.  Returns the error (or NoError) and the list.
RECURSIVE buildFrom(_, _, _, _)
buildFrom(cs, byLocation, ci, ii) ==
    IF ci > Len(cs) THEN [err |-> NoError, contracts |-> cs]
    ELSE IF ii > Len(imports(cs[ci])) THEN buildFrom(cs, byLocation, ci + 1, 1)
    ELSE
        LET location == imports(cs[ci])[ii]
            importPath == location
        IN IF ~MapHas(byLocation, importPath)
           THEN [err |-> UnresolvedImport(cs[ci].Contract.Name, importPath),
                 contracts |-> cs]
           ELSE
               LET importContract == MapGet(byLocation, importPath)
                   r == addDependency(cs[ci], location, importContract)
               IN IF r.panic
                  THEN [err |-> Panic("assignment to entry in nil map"),
                        contracts |-> cs]
                  ELSE buildFrom([cs EXCEPT ![ci] = r.contract], byLocation, ci, ii + 1)

buildDependencies(cs, byLocation) == buildFrom(cs, byLocation, 1, 1)

(***************************************************************************)
(* The graph library as sortByDeploymentOrder uses it.  A graph is a       *)
(* record of the node IDs and the set of <<from, to>> edges.               *)
(***************************************************************************)
\* graph.NodesOf(it): the nodes the iterator yields, in the order of a Go map
\* iteration, which is any order.
NodesOf(S) ==
    {s \in [1..Cardinality(S) -> S] : \A i, j \in DOMAIN s : i # j => s[i] # s[j]}

\* A stabilizer that leaves the nodes in the order it is given them.
ByIDUnsorted(nodes) == nodes

\* The default stabilizer of topo.SortStabilized: sort the nodes by ID.
ByID(nodes) == SortSeq(nodes, LAMBDA a, b : a < b)

\* g.From(id) after the stabilizer and the reversal: successors, highest ID first.
succ(g, id) ==
    LET to == {e[2] : e \in {x \in g.edges : x[1] = id}}
    IN Reverse(ByID(CHOOSE s \in NodesOf(to) : TRUE))

\* The end of strongconnect for a root v: pop the stack down to v.
popSCC(t, v) ==
    LET p == CHOOSE i \in DOMAIN t.stack : t.stack[i] = v
        scc == Reverse(SubSeq(t.stack, p, Len(t.stack)))
    IN [t EXCEPT !.stack = SubSeq(t.stack, 1, p - 1),
                 !.onStack = @ \ Range(scc),
                 !.sccs = Append(@, scc)]

RECURSIVE strongconnect(_, _, _), visitSuccessors(_, _, _, _)
strongconnect(g, t, v) ==
    LET t1 == [t EXCEPT !.index = @ + 1,
                        !.indexTable[v] = t.index + 1,
                        !.lowLink[v] = t.index + 1,
                        !.stack = Append(@, v),
                        !.onStack = @ \cup {v}]
        t2 == visitSuccessors(g, t1, v, succ(g, v))
    IN IF t2.lowLink[v] = t2.indexTable[v] THEN popSCC(t2, v) ELSE t2

visitSuccessors(g, t, v, ws) ==
    IF ws = <<>> THEN t
    ELSE
        LET w == Head(ws)
            t1 == IF t.indexTable[w] = 0
                  THEN LET r == strongconnect(g, t, w)
                       IN [r EXCEPT !.lowLink[v] = Min(r.lowLink[v], r.lowLink[w])]
                  ELSE IF w \in t.onStack
                  THEN [t EXCEPT !.lowLink[v] = Min(@, t.indexTable[w])]
                  ELSE t
        IN visitSuccessors(g, t1, v, Tail(ws))

RECURSIVE tarjanLoop(_, _, _)
tarjanLoop(g, t, nodes) ==
    IF nodes = <<>> THEN t
    ELSE IF t.indexTable[Head(nodes)] = 0
    THEN tarjanLoop(g, strongconnect(g, t, Head(nodes)), Tail(nodes))
    ELSE tarjanLoop(g, t, Tail(nodes))

\* tarjanSCCstabilized: the strongly connected components, sinks first; the
\* nodes are visited highest ID first.  nodes0 is the order NodesOf gave.
tarjanSCCstabilized(g, nodes0) ==
    LET t0 == [index |-> 0,
               indexTable |-> [v \in g.nodes |-> 0],
               lowLink |-> [v \in g.nodes |-> 0],
               stack |-> <<>>,
               onStack |-> {},
               sccs |-> <<>>]
    IN tarjanLoop(g, t0, Reverse(ByID(nodes0))).sccs

\* sortedFrom: a component of one node is a sorted node, any other component
\* is a cycle (its place in sorted is nil, here -1); both lists are reversed.
sortedFrom(sccs) ==
    LET cyclic == SelectSeq(sccs, LAMBDA s : Len(s) # 1)
        sc == [i \in DOMAIN cyclic |-> ByID(cyclic[i])]
        sorted == [i \in DOMAIN sccs |-> IF Len(sccs[i]) # 1 THEN -1 ELSE sccs[i][1]]
    IN [sorted |-> Reverse(sorted), err |-> Reverse(sc)]

SortStabilized(g, nodes0) == sortedFrom(tarjanSCCstabilized(g, nodes0))

(***************************************************************************)
(* sortByDeploymentOrder and Deployment.Sort                               *)
(***************************************************************************)
\* The edges the second loop hands to g.SetEdge: one from each dependency to
\* the contract that has it.
dependencyEdges(cs) ==
    UNION {{<<ID(cs[e[2]]), ID(cs[i])>> : e \in cs[i].dependencies.entries} : i \in DOMAIN cs}

\* A conversion whose loop stops one node early.
nodesToContractsDropLast(cs, nodes) ==
    [i \in 1..(Len(nodes) - 1) |-> CHOOSE p \in DOMAIN cs : ID(cs[p]) = nodes[i]]

\* nodesToContracts: each node back to its deployContract (its position in cs).
nodesToContracts(cs, nodes) ==
    [i \in DOMAIN nodes |-> CHOOSE p \in DOMAIN cs : ID(cs[p]) = nodes[i]]

nodeSetsToContractSets(cs, nodeSets) ==
    [i \in DOMAIN nodeSets |-> nodesToContracts(cs, nodeSets[i])]

\* sortByDeploymentOrder.  SetEdge panics on an edge from a node to itself.
\* The result is a Sort outcome whose order and cycles hold positions in cs.
sortByDeploymentOrder(cs, nodes0) ==
    LET g == [nodes |-> {ID(cs[i]) : i \in DOMAIN cs}, edges |-> dependencyEdges(cs)]
    IN IF \E e \in g.edges : e[1] = e[2]
       THEN Panic("simple: adding self edge")
       ELSE LET r == SortStabilized(g, nodes0)
            IN IF r.err # <<>>
               THEN CyclicImportError(nodeSetsToContractSets(cs, r.err))
               ELSE SortedOutcome(nodesToContracts(cs, r.sorted))

\* contractNames: the names of the contracts of each cycle.
contractNames(cs, e) ==
    [i \in DOMAIN e.cycles |->
        [j \in DOMAIN e.cycles[i] |-> cs[e.cycles[i][j]].Contract.Name]]

(***************************************************************************)
(* Inputs: the contract lists and sources a Deployment is built from       *)
(***************************************************************************)
Names == <<"A", "B", "C", "D", "E", "F">>

\* The flowkit.Contract values handed to NewDeployment: n contracts, contract
\* number i named Names[i] at location i.
InputContracts(n) == [i \in 1..n |-> [Name |-> Names[i], Location |-> i]]

\* What an import declaration of a source may be when n contracts are registered.
Declarations(n) == {-1} \cup (0..n)

RECURSIVE ProgramsOfLen(_, _)
\* The declaration lists of exactly k declarations.
ProgramsOfLen(n, k) ==
    IF k = 0 THEN {<<>>}
    ELSE {Append(p, x) : p \in ProgramsOfLen(n, k - 1), x \in Declarations(n)}

RECURSIVE Sum(_)
Sum(lens) == IF lens = <<>> THEN 0 ELSE Head(lens) + Sum(Tail(lens))

\* How at most k declarations may be spread over the sources of n contracts.
Distributions(n, k) == {lens \in [1..n -> 0..k] : Sum(lens) <= k}

RECURSIVE Loaders(_, _)
\* What loader.Load returns for each of the n locations, the source of
\* location i holding lens[i] declarations.
Loaders(n, lens) ==
    IF lens = <<>> THEN {<<>>}
    ELSE {Append(l, p) : l \in Loaders(n, SubSeq(lens, 1, Len(lens) - 1)),
                         p \in ProgramsOfLen(n, lens[Len(lens)])}

\* The deployments of the examples of the project's documentation.
Diamond == NewDeployment(InputContracts(4), <<<<>>, <<1>>, <<1>>, <<2, 3>>>>)

ExampleDeployments == {Diamond}

(***************************************************************************)
(* Deployment.Sort, in two steps                                           *)
(***************************************************************************)
CmdIdle ==
    /\ createFlagsResults = FALSE
    /\ flagsRemoveResults = FALSE
    /\ flagsRemoveSigner = "emulator-account"
    /\ args = <<>>
    /\ cmdResult = [kind |-> "notrun", name |-> "", signer |-> "", showCode |-> FALSE,
                    err |-> "nil"]

Init ==
    /\ \/ \E n \in 0..MaxContracts :
             \E lens \in Distributions(n, MaxImports) :
                \E l \in Loaders(n, lens) :
                   LET d == NewDeployment(InputContracts(n), l)
                   IN /\ contracts = d.contracts
                      /\ contractsByLocation = d.contractsByLocation
       \/ \E d \in ExampleDeployments :
             /\ contracts = d.contracts
             /\ contractsByLocation = d.contractsByLocation
    /\ pc = "idle"
    /\ results = <<>>
    /\ CmdIdle

\* Sort, first half: buildDependencies; an error or a panic ends the call.
\* A panic leaves the Deployment as it is; a caller that recovers from it may
\* call Sort again.
SortBuild ==
    /\ pc = "idle"
    /\ Len(results) < MaxCalls
    /\ LET b == buildDependencies(contracts, contractsByLocation)
       IN /\ contracts' = b.contracts
          /\ IF b.err.kind = "none"
             THEN pc' = "built" /\ results' = results
             ELSE pc' = "idle" /\ results' = Append(results, b.err)
    /\ UNCHANGED <<contractsByLocation, cmdVars>>

\* The loop that unwraps the sorted deployContracts into a slice of
\* len(d.contracts) Contract pointers; an index past the slice panics, an
\* index never written stays nil.
unwrap(cs, sorted) ==
    IF Len(sorted) > Len(cs) THEN Panic("index out of range")
    ELSE SortedOutcome([i \in DOMAIN cs |->
            IF i <= Len(sorted) THEN cs[sorted[i]].Contract
            ELSE [Name |-> "", Location |-> -1]])

\* Sort, second half: sortByDeploymentOrder and the unwrapping.
SortOrder ==
    /\ pc = "built"
    /\ \E nodes0 \in NodesOf({ID(contracts[i]) : i \in DOMAIN contracts}) :
          LET r == sortByDeploymentOrder(contracts, nodes0)
          IN results' = Append(results, IF r.kind = "ok" THEN unwrap(contracts, r.order) ELSE r)
    /\ pc' = "idle"
    /\ UNCHANGED <<contracts, contractsByLocation, cmdVars>>

Next == SortBuild \/ SortOrder

Spec == Init /\ [][Next]_vars

(***************************************************************************)
(* What the registered contracts import, read off the registry itself      *)
(***************************************************************************)
Positions == DOMAIN contracts

RegisteredLocations == {contracts[p].Contract.Location : p \in Positions}

PositionAt(location) == CHOOSE p \in Positions : contracts[p].Contract.Location = location

ImportsOf(p) == Range(imports(contracts[p]))

AllResolve == \A p \in Positions : ImportsOf(p) \subseteq RegisteredLocations

\* <<dep, dependent>>: the contract at position dependent imports the location
\* of the contract at position dep.
ImportEdges ==
    UNION {{<<PositionAt(l), p>> : l \in ImportsOf(p) \cap RegisteredLocations} :
              p \in Positions}

RECURSIVE Closure(_)
Closure(R) ==
    LET step == R \cup UNION {{<<e[1], f[2]>> : f \in {x \in R : x[1] = e[2]}} : e \in R}
    IN IF step = R THEN R ELSE Closure(step)

Reaches == Closure(ImportEdges)

Acyclic == \A p \in Positions : <<p, p>> \notin Reaches

\* The strongly connected components of more than one contract.
ComponentOf(p) == {p} \cup {q \in Positions : <<p, q>> \in Reaches /\ <<q, p>> \in Reaches}

Cycles == {ComponentOf(p) : p \in {q \in Positions : Cardinality(ComponentOf(q)) > 1}}

SelfImporting == {p \in Positions : <<p, p>> \in ImportEdges}

\* The first unresolved import, contracts in registration order and each
\* contract's imports in source order.
FirstUnresolved ==
    LET p == CHOOSE q \in Positions :
                 /\ ~(ImportsOf(q) \subseteq RegisteredLocations)
                 /\ \A r \in 1..(q - 1) : ImportsOf(r) \subseteq RegisteredLocations
        im == imports(contracts[p])
        j == CHOOSE k \in DOMAIN im :
                 /\ im[k] \notin RegisteredLocations
                 /\ \A m \in 1..(k - 1) : im[m] \in RegisteredLocations
    IN [name |-> contracts[p].Contract.Name, path |-> im[j]]

\* The order that places, at every position, the contract of lowest index
\* among those not placed yet whose dependencies are all placed.
RECURSIVE LowestReadyFirst(_)
LowestReadyFirst(placed) ==
    LET done == Range(placed)
        ready == {p \in Positions \ done : \A e \in ImportEdges : e[2] = p => e[1] \in done}
    IN IF ready = {} THEN placed
       ELSE LowestReadyFirst(Append(placed,
                CHOOSE p \in ready : \A q \in ready : contracts[p].index <= contracts[q].index))

ContractsAt(ps) == [i \in DOMAIN ps |-> contracts[ps[i]].Contract]

\* Where the Contract of position p stands in an output order.
PlacesOf(order, p) == {i \in DOMAIN order : order[i] = contracts[p].Contract}

PlaceOf(order, p) == CHOOSE i \in PlacesOf(order, p) : TRUE

Completed == DOMAIN results

BuildFailed(r) ==
    \/ r.kind = "unresolved"
    \/ r.kind = "panic" /\ r.name = "assignment to entry in nil map"

\* buildDependencies of the current or of the last Sort call returned nil.
BuildSucceeded ==
    \/ pc = "built"
    \/ pc = "idle" /\ results # <<>> /\ ~BuildFailed(results[Len(results)])

DependenciesOf(p) == contracts[p].dependencies.entries

(***************************************************************************)
(* Claims about Deployment.Sort                                            *)
(***************************************************************************)

\* C1: when the imports all resolve and the import graph is acyclic, every
\* completed Sort() call returned, without error, an order in which each
\* imported contract stands strictly before every contract importing it.
C1_DependenciesFirst ==
    \A k \in Completed :
        (AllResolve /\ Acyclic) =>
            /\ results[k].kind = "ok"
            /\ \A e \in ImportEdges :
                  /\ PlacesOf(results[k].order, e[1]) # {}
                  /\ PlacesOf(results[k].order, e[2]) # {}
                  /\ PlaceOf(results[k].order, e[1]) < PlaceOf(results[k].order, e[2])

\* C2: an order Sort() returns without error is a permutation of the contracts
\* given to NewDeployment: as long as the input and each Contract exactly once;
\* no contracts give the empty order, one contract that imports nothing gives
\* that contract.
C2_Permutation ==
    \A k \in Completed :
        /\ results[k].kind = "ok" =>
              /\ Len(results[k].order) = Len(contracts)
              /\ \A p \in Positions : Cardinality(PlacesOf(results[k].order, p)) = 1
        /\ Len(contracts) = 0 => results[k] = SortedOutcome(<<>>)
        /\ (Len(contracts) = 1 /\ ImportsOf(1) = {}) =>
              results[k] = SortedOutcome(<<contracts[1].Contract>>)

C2_Witness ==
    /\ Len(contracts) >= 2
    /\ results # <<>>
    /\ results[Len(results)].kind = "ok"

\* C3: when some import matches no registered location, every completed
\* Sort() call failed with the error naming the importing contract and the
\* path of the first unresolved import in scan order.
C3_FirstUnresolvedReported ==
    \A k \in Completed :
        ~AllResolve =>
            results[k] = UnresolvedImport(FirstUnresolved.name, FirstUnresolved.path)

\* C4: when the imports all resolve and contracts import each other in a
\* cycle, every completed Sort() call failed with one CyclicImportError whose
\* cycles are the strongly connected components of more than one contract,
\* each with all of its members.
C4_AllCyclesReported ==
    \A k \in Completed :
        (AllResolve /\ Cycles # {}) =>
            /\ results[k].kind = "cyclic"
            /\ Cycles \subseteq {Range(results[k].cycles[i]) : i \in DOMAIN results[k].cycles}

\* C5: when the only cycle is one contract importing its own location, every
\* completed Sort() call failed with a CyclicImportError of exactly one cycle,
\* made of that contract alone.
C5_SelfImportReported ==
    \A k \in Completed :
        (AllResolve /\ Cycles = {} /\ Cardinality(SelfImporting) = 1) =>
            /\ results[k].kind = "cyclic"
            /\ contractNames(contracts, results[k]) =
                  <<<<contracts[CHOOSE p \in SelfImporting : TRUE].Contract.Name>>>>

\* C6: an order Sort() returns places at every position the contract of
\* lowest index among those whose dependencies are all placed, and Sort() on
\* the diamond A, B (imports A), C (imports A), D (imports B and C) returns
\* exactly A, B, C, D.
C6_LowestIndexFirst ==
    \A k \in Completed :
        /\ results[k].kind = "ok" =>
              results[k].order = ContractsAt(LowestReadyFirst(<<>>))
        /\ contracts = Diamond.contracts =>
              results[k] = SortedOutcome(ContractsAt(<<1, 2, 3, 4>>))

\* C7: all the Sort() calls completed on one Deployment had the same outcome:
\* the same order, or the same error.
C7_Deterministic ==
    \A i, j \in Completed : results[i] = results[j]

C7_Witness ==
    /\ Len(contracts) >= 2
    /\ Len(results) >= 2
    /\ results[1].kind = "ok"

Signers == {"emulator-account", "alice", "bob"}

ContractNames == {"FungibleToken", "NonFungibleToken", "Kibble", "Foo"}

\* What services.Accounts.RemoveContract may return as its error (nil: none).
ServiceErrors == {"nil", "contract not found", "signer not found"}

NotRun == [kind |-> "notrun", name |-> "", signer |-> "", showCode |-> FALSE, err |-> "nil"]

Deprecated ==
    [kind |-> "error", name |-> "", signer |-> "", showCode |-> FALSE,
     err |-> "results flags is deperacated"]

ServiceError(e) ==
    [kind |-> "error", name |-> "", signer |-> "", showCode |-> FALSE, err |-> e]

\* &AccountResult{Account: account, showCode: false} for the account that
\* RemoveContract(name, signer) returned.
AccountResult(name, signer) ==
    [kind |-> "account", name |-> name, signer |-> signer, showCode |-> FALSE, err |-> "nil"]

\* The state while only the remove-contract command is looked at: an empty Deployment.
NoDeployment ==
    /\ contracts = <<>>
    /\ contractsByLocation = {}
    /\ pc = "idle"
    /\ results = <<>>

\* The flags as the command line set them, and the one argument.
InitRemove ==
    /\ NoDeployment
    /\ createFlagsResults \in BOOLEAN
    /\ flagsRemoveResults \in BOOLEAN
    /\ flagsRemoveSigner \in Signers
    /\ args \in {<<n>> : n \in ContractNames}
    /\ cmdResult = NotRun

\* RemoveCommand.Run; serviceErr is what RemoveContract returns when called.
Run ==
    /\ cmdResult = NotRun
    /\ \E serviceErr \in ServiceErrors :
          cmdResult' =
              IF createFlagsResults THEN Deprecated
              ELSE IF serviceErr # "nil" THEN ServiceError(serviceErr)
              ELSE AccountResult(args[1], flagsRemoveSigner)
    /\ UNCHANGED <<depVars, createFlagsResults, flagsRemoveResults, flagsRemoveSigner, args>>

NextRemove == Run

SpecRemove == InitRemove /\ [][NextRemove]_vars

\* C10: Run returns the deprecation error exactly when the remove-contract
\* command's own Results flag is set, whatever the flags of other commands;
\* with that flag unset it returns the account RemoveContract gave for the
\* name argument and the configured signer, or the error of that call.
C10_OwnResultsFlagDecides ==
    cmdResult # NotRun =>
        /\ cmdResult = Deprecated <=> flagsRemoveResults
        /\ ~flagsRemoveResults =>
              \/ cmdResult = AccountResult(args[1], flagsRemoveSigner)
              \/ \E e \in ServiceErrors \ {"nil"} : cmdResult = ServiceError(e)

====
